---- MODULE Spec2Model ----
(***************************************************************************)
(* PDP matcher prototype (src/app.js).  The file holds the two revisions   *)
(* of the page script: the exact+fallback matcher (lines 1-286) and the    *)
(* scattered-keyword matcher (lines 287-560).  `version` says which of the *)
(* two scripts the page has loaded.                                        *)
(*                                                                         *)
(* Text is a sequence of one-character strings, so that normalisation,     *)
(* tokenisation, the link key and the highlighting regular expression are  *)
(* computed character by character, as the script computes them.           *)
(***************************************************************************)
EXTENDS Integers, Sequences, FiniteSets

VARIABLES
    version,        \* "exact" (lines 1-286) or "scattered" (lines 287-560)
    csvData,        \* let csvData = []            (line 7 / 293)
    lastMatches,    \* let lastMatches = []        (line 8 / 294)
    pdpInput,       \* els.pdpInput.value          (raw title text)
    pdpTitle,       \* els.pdpTitle.innerHTML      (highlighted title)
    related,        \* els.related children        (rendered links)
    relatedShown,   \* els.relatedContainer.style.display = 'block'
    debugOut,       \* els.debugOut.value          (debug record)
    exportEnabled,  \* !els.exportHtml.disabled && !els.exportJson.disabled
    csvStatus,      \* els.csvStatus.textContent   (kind of message)
    alertMsg,       \* alert(...) raised by the last handler, "" if none
    download,       \* downloadFile(...) made by the last handler, or NoFile
    parsing         \* Papa.parse calls whose callback has not run yet

vars == <<version, csvData, lastMatches, pdpInput, pdpTitle, related,
          relatedShown, debugOut, exportEnabled, csvStatus, alertMsg, download,
          parsing>>

-----------------------------------------------------------------------------
(* Characters *)

LowerLetters == <<"a","b","c","d","e","f","g","h","i","j","k","l","m",
                  "n","o","p","q","r","s","t","u","v","w","x","y","z">>

UpperLetters == <<"A","B","C","D","E","F","G","H","I","J","K","L","M",
                  "N","O","P","Q","R","S","T","U","V","W","X","Y","Z">>

Digits == {"0","1","2","3","4","5","6","7","8","9"}

Range(s) == { s[i] : i \in DOMAIN s }

UpperSet == Range(UpperLetters)

\* the lower-case letter of each upper-case letter
LowerOf == [c \in UpperSet |->
               LowerLetters[CHOOSE i \in DOMAIN UpperLetters : UpperLetters[i] = c]]

\* String.prototype.toLowerCase, one character
toLowerCase(c) == IF c \in UpperSet THEN LowerOf[c] ELSE c

SpaceChars == {" ", "\t", "\n"}
LowerAlnumChars == Range(LowerLetters) \cup Digits
WordChars == Range(LowerLetters) \cup Range(UpperLetters) \cup Digits \cup {"_"}

\* the regular expression class \s
IsSpace(c) == c \in SpaceChars

\* the regular expression class [a-z0-9]
IsLowerAlnum(c) == c \in LowerAlnumChars

\* the regular expression class \w
IsWordChar(c) == c \in WordChars

-----------------------------------------------------------------------------
(* Text helpers *)

RECURSIVE TrimLeft(_)
TrimLeft(t) ==
    IF t # <<>> /\ IsSpace(Head(t)) THEN TrimLeft(Tail(t)) ELSE t

RECURSIVE TrimRight(_)
TrimRight(t) ==
    IF t # <<>> /\ IsSpace(t[Len(t)]) THEN TrimRight(SubSeq(t, 1, Len(t) - 1)) ELSE t

\* String.prototype.trim
trim(t) == TrimRight(TrimLeft(t))

\* .replace(/\s+/g, ' ')
RECURSIVE CollapseSpaces(_)
CollapseSpaces(t) ==
    IF t = <<>> THEN <<>>
    ELSE IF IsSpace(Head(t))
         THEN <<" ">> \o CollapseSpaces(TrimLeft(t))
         ELSE <<Head(t)>> \o CollapseSpaces(Tail(t))

\* normalize (lines 91-96 and 406-412)
normalize(text) ==
    LET lower == [i \in DOMAIN text |-> toLowerCase(text[i])]
        punct == [i \in DOMAIN lower |->
                    IF IsLowerAlnum(lower[i]) \/ IsSpace(lower[i]) THEN lower[i] ELSE " "]
    IN  trim(CollapseSpaces(punct))

\* text.split(' ')
RECURSIVE SplitOnSpace(_, _)
SplitOnSpace(t, cur) ==
    IF t = <<>> THEN <<cur>>
    ELSE IF Head(t) = " "
         THEN <<cur>> \o SplitOnSpace(Tail(t), <<>>)
         ELSE SplitOnSpace(Tail(t), Append(cur, Head(t)))

\* text.split(' ').filter(t => t)
tokenize(text) == SelectSeq(SplitOnSpace(text, <<>>), LAMBDA w : w # <<>>)

\* Array.prototype.join(' ')
RECURSIVE join(_)
join(ws) ==
    IF ws = <<>> THEN <<>>
    ELSE IF Len(ws) = 1 THEN ws[1]
         ELSE ws[1] \o <<" ">> \o join(Tail(ws))

Min(a, b) == IF a < b THEN a ELSE b

-----------------------------------------------------------------------------
(* generateNGrams (lines 102-121) *)

MAX_WINDOW == 4

\* tokens.slice(i, i + n).join(' '), i counted from 0
Gram(tokens, i, n) == join(SubSeq(tokens, i + 1, i + n))

\* SlideWindow with the loop bound i < tokens.length - n: the last window of
\* each size is never taken
RECURSIVE SlideWindowOffByOne(_, _, _, _)
SlideWindowOffByOne(tokens, n, i, acc) ==
    IF i >= Len(tokens) - n THEN acc
    ELSE LET gram == join(SubSeq(tokens, i + 1, i + n))
         IN  SlideWindowOffByOne(tokens, n, i + 1,
                                 IF gram \in Range(acc) THEN acc ELSE Append(acc, gram))

\* the inner loop for one n, from window i on; acc is nGrams (seen is its range)
RECURSIVE SlideWindow(_, _, _, _)
SlideWindow(tokens, n, i, acc) ==
    IF i > Len(tokens) - n THEN acc
    ELSE LET gram == Gram(tokens, i, n)
         IN  SlideWindow(tokens, n, i + 1,
                         IF gram \in Range(acc) THEN acc ELSE Append(acc, gram))

\* the outer loop, n descending to 1
RECURSIVE GramSizes(_, _, _)
GramSizes(tokens, n, acc) ==
    IF n < 1 THEN acc
    ELSE GramSizes(tokens, n - 1, SlideWindow(tokens, n, 0, acc))

\* the outer loop with the bound n > 1: no single tokens among the n-grams
RECURSIVE GramSizesNoSingles(_, _, _)
GramSizesNoSingles(tokens, n, acc) ==
    IF n <= 1 THEN acc
    ELSE GramSizesNoSingles(tokens, n - 1, SlideWindow(tokens, n, 0, acc))

generateNGramsNoSingles(text) ==
    LET tokens == tokenize(text)
        maxN   == Min(MAX_WINDOW, Len(tokens))
    IN  [nGrams |-> GramSizesNoSingles(tokens, maxN, <<>>), tokens |-> tokens]

generateNGrams(text) ==
    LET tokens == tokenize(text)
        maxN   == Min(MAX_WINDOW, Len(tokens))
    IN  [nGrams |-> GramSizes(tokens, maxN, <<>>), tokens |-> tokens]

-----------------------------------------------------------------------------
(* CSV handling: processCSVData (lines 49-83 and 350-398) *)

\* the three header names, lower-cased (lines 54-56 / 361-363)
KEY_PHRASE == <<"p","d","p"," ","p","h","r","a","s","e">>
KEY_URL    == <<"p","l","p"," ","u","r","l">>
KEY_ANCHOR == <<"a","n","c","h","o","r"," ","t","e","x","t">>

lowerText(t) == [i \in DOMAIN t |-> toLowerCase(t[i])]

\* headers[key] after fields.forEach(f => headers[f.toLowerCase()] = f):
\* the last field whose lower-cased name is key; <<>> stands for undefined
headerFor(fields, key) ==
    LET hits == { i \in DOMAIN fields : lowerText(fields[i]) = key }
    IN  IF hits = {} THEN <<>>
        ELSE fields[CHOOSE i \in hits : \A j \in hits : j <= i]

\* row[col] || ""
cell(row, col) == IF col \in DOMAIN row THEN row[col] ELSE <<>>

\* the object built by data.map for one row (lines 66-76 / 378-391)
catalogItem(ver, row, index, colPhrase, colUrl, colAnchor) ==
    LET normPhrase == normalize(cell(row, colPhrase))
    IN  IF ver = "exact"
        THEN [id |-> index, phrase |-> normPhrase,
              tokens |-> tokenize(normPhrase),
              url |-> trim(cell(row, colUrl)),
              anchor |-> trim(cell(row, colAnchor)),
              originalRow |-> row]
        ELSE [id |-> index, phrase |-> normPhrase,
              requiredKeywords |-> tokenize(normPhrase),
              url |-> trim(cell(row, colUrl)),
              anchor |-> trim(cell(row, colAnchor)),
              originalRow |-> row]

\* the .filter predicate (line 77 / 392)
validItem(ver, item) ==
    IF ver = "exact"
    THEN item.phrase # <<>> /\ item.url # <<>> /\ item.anchor # <<>>
    ELSE Len(item.requiredKeywords) > 0 /\ item.url # <<>> /\ item.anchor # <<>>

\* buildCatalog as a loop that stops at the first invalid row instead of
\* skipping it: the rows behind it are lost
RECURSIVE rowsUntilInvalid(_, _)
rowsUntilInvalid(ver, items) ==
    IF items = <<>> \/ ~validItem(ver, Head(items)) THEN <<>>
    ELSE <<Head(items)>> \o rowsUntilInvalid(ver, Tail(items))

buildCatalogUntilInvalid(ver, data, colPhrase, colUrl, colAnchor) ==
    rowsUntilInvalid(ver, [i \in DOMAIN data |->
        catalogItem(ver, data[i], i - 1, colPhrase, colUrl, colAnchor)])

\* data.map(...).filter(...)
buildCatalog(ver, data, colPhrase, colUrl, colAnchor) ==
    LET mapped == [i \in DOMAIN data |->
                      catalogItem(ver, data[i], i - 1, colPhrase, colUrl, colAnchor)]
    IN  SelectSeq(mapped, LAMBDA item : validItem(ver, item))

Status(msg, n) == [msg |-> msg, rows |-> n]

\* processCSVData: the catalog and the status it leaves, given those it found.
\* res is Papa's result: [data, fields, hasFields, errors].  In the exact
\* revision undefined fields make fields.forEach throw: nothing is assigned.
processCSVData(ver, res, csv, status) ==
    LET colPhrase == headerFor(res.fields, KEY_PHRASE)
        colUrl    == headerFor(res.fields, KEY_URL)
        colAnchor == headerFor(res.fields, KEY_ANCHOR)
        built     == buildCatalog(ver, res.data, colPhrase, colUrl, colAnchor)
    IN  IF ver = "exact" /\ ~res.hasFields
        THEN [csvData |-> csv, csvStatus |-> status]
        ELSE IF ver = "scattered" /\ (~res.hasFields \/ Len(res.fields) = 0)
        THEN [csvData |-> csv, csvStatus |-> Status("Error: Could not read CSV headers.", 0)]
        ELSE IF colPhrase = <<>> \/ colUrl = <<>> \/ colAnchor = <<>>
        THEN [csvData |-> csv, csvStatus |-> Status("Error: Missing columns", 0)]
        ELSE [csvData |-> built,
              csvStatus |-> Status(IF ver = "exact" THEN "Loaded rows"
                                   ELSE "Loaded rows successfully", Len(built))]

\* Papa's complete callback (lines 40-45 / 334-341)
parseComplete(ver, res, csv, status) ==
    processCSVData(ver, res, csv,
                   IF ver = "scattered" /\ res.errors
                   THEN Status("Error parsing CSV. Check console.", 0)
                   ELSE status)

-----------------------------------------------------------------------------
(* Exact + fallback matching: runMatching (lines 123-200) *)

\* { ...row, matchType, score, matchText }
exactMatch(row, type, score, text) ==
    [id |-> row.id, phrase |-> row.phrase, tokens |-> row.tokens,
     url |-> row.url, anchor |-> row.anchor, originalRow |-> row.originalRow,
     matchType |-> type, score |-> score, matchText |-> text]

\* rows.forEach (lines 147-157); acc is [matches, matchedRowIndices]
RECURSIVE pass1Rows(_, _, _)
pass1Rows(rows, gram, acc) ==
    IF rows = <<>> THEN acc
    ELSE LET row == Head(rows)
         IN  pass1Rows(Tail(rows), gram,
                IF row.id \notin acc.matched
                THEN [matches |-> Append(acc.matches,
                                         exactMatch(row, "exact", Len(row.tokens), gram)),
                      matched |-> acc.matched \cup {row.id}]
                ELSE acc)

\* nGrams.forEach (lines 143-158)
RECURSIVE pass1(_, _, _)
pass1(nGrams, csv, acc) ==
    IF nGrams = <<>> THEN acc
    ELSE LET gram == Head(nGrams)
             rows == SelectSeq(csv, LAMBDA row : row.phrase = gram)
         IN  pass1(Tail(nGrams), csv, pass1Rows(rows, gram, acc))

\* csvData.forEach (lines 162-179)
RECURSIVE pass2(_, _, _)
pass2(rows, h1Tokens, acc) ==
    IF rows = <<>> THEN acc
    ELSE LET row == Head(rows)
         IN  pass2(Tail(rows), h1Tokens,
                IF row.id \in acc.matched THEN acc
                ELSE IF Len(row.tokens) = 1 /\ row.phrase \in Range(h1Tokens)
                THEN [matches |-> Append(acc.matches,
                                         exactMatch(row, "fallback", 1, row.phrase)),
                      matched |-> acc.matched \cup {row.id}]
                ELSE acc)

\* the candidates of the exact revision, in discovery order (lines 135-179)
exactCandidates(csv, rawH1) ==
    LET g  == generateNGrams(normalize(rawH1))
        p1 == pass1(g.nGrams, csv, [matches |-> <<>>, matched |-> {}])
    IN  pass2(csv, g.tokens, p1).matches

-----------------------------------------------------------------------------
(* Scattered keyword matching: runMatching (lines 414-468) *)

scatteredMatch(row) ==
    [id |-> row.id, phrase |-> row.phrase, requiredKeywords |-> row.requiredKeywords,
     url |-> row.url, anchor |-> row.anchor, originalRow |-> row.originalRow,
     matchType |-> "scattered", score |-> Len(row.requiredKeywords)]

\* isMatch with some in place of every
isMatchSome(row, h1Tokens) ==
    \E k \in DOMAIN row.requiredKeywords : row.requiredKeywords[k] \in h1Tokens

\* row.requiredKeywords.every(keyword => h1Tokens.has(keyword))
isMatch(row, h1Tokens) ==
    \A k \in DOMAIN row.requiredKeywords : row.requiredKeywords[k] \in h1Tokens

\* csvData.forEach (lines 434-447)
RECURSIVE scatterRows(_, _, _)
scatterRows(rows, h1Tokens, matches) ==
    IF rows = <<>> THEN matches
    ELSE scatterRows(Tail(rows), h1Tokens,
            IF isMatch(Head(rows), h1Tokens)
            THEN Append(matches, scatteredMatch(Head(rows)))
            ELSE matches)

\* the candidates of the scattered revision, in discovery order (lines 426-447)
scatteredCandidates(csv, rawH1) ==
    scatterRows(csv, Range(tokenize(normalize(rawH1))), <<>>)

-----------------------------------------------------------------------------
(* Ranking and deduplication (lines 181-196 and 449-464) *)

\* insertByScore that puts m before the elements of its own score: the
\* order an unstable sort may leave
RECURSIVE insertByScoreUnstable(_, _)
insertByScoreUnstable(sorted, m) ==
    IF sorted = <<>> THEN <<m>>
    ELSE IF Head(sorted).score > m.score
         THEN <<Head(sorted)>> \o insertByScoreUnstable(Tail(sorted), m)
         ELSE <<m>> \o sorted

\* insert m behind every element whose score is not lower: the stable order
RECURSIVE insertByScore(_, _)
insertByScore(sorted, m) ==
    IF sorted = <<>> THEN <<m>>
    ELSE IF Head(sorted).score >= m.score
         THEN <<Head(sorted)>> \o insertByScore(Tail(sorted), m)
         ELSE <<m>> \o sorted

\* sortByScore with the comparator a.score - b.score: ascending
RECURSIVE insertAscending(_, _)
insertAscending(sorted, m) ==
    IF sorted = <<>> THEN <<m>>
    ELSE IF Head(sorted).score <= m.score
         THEN <<Head(sorted)>> \o insertAscending(Tail(sorted), m)
         ELSE <<m>> \o sorted

RECURSIVE sortByScoreAscending(_)
sortByScoreAscending(matches) ==
    IF matches = <<>> THEN <<>>
    ELSE insertAscending(sortByScoreAscending(SubSeq(matches, 1, Len(matches) - 1)),
                         matches[Len(matches)])

\* matches.sort((a, b) => b.score - a.score); Array.prototype.sort is stable
RECURSIVE sortByScore(_)
sortByScore(matches) ==
    IF matches = <<>> THEN <<>>
    ELSE insertByScore(sortByScore(SubSeq(matches, 1, Len(matches) - 1)),
                       matches[Len(matches)])

\* `${m.url}|${m.anchor}`
linkKey(m) == m.url \o <<"|">> \o m.anchor

\* matches.forEach with seenLinks (lines 190-196 / 458-464)
RECURSIVE dedupe(_, _, _)
dedupe(matches, uniqueMatches, seenLinks) ==
    IF matches = <<>> THEN uniqueMatches
    ELSE LET m == Head(matches)
             key == linkKey(m)
         IN  IF key \notin seenLinks
             THEN dedupe(Tail(matches), Append(uniqueMatches, m), seenLinks \cup {key})
             ELSE dedupe(Tail(matches), uniqueMatches, seenLinks)

\* the candidates of a run, before ranking
candidates(ver, csv, rawH1) ==
    IF ver = "exact" THEN exactCandidates(csv, rawH1) ELSE scatteredCandidates(csv, rawH1)

\* uniqueMatches of a run
matchSet(ver, csv, rawH1) ==
    dedupe(sortByScore(candidates(ver, csv, rawH1)), <<>>, {})

-----------------------------------------------------------------------------
(* Rendering: renderResults (lines 204-254 and 472-528) *)

\* the characters escapeRegex escapes (line 259 / 533)
RegexSpecial == {".", "*", "+", "?", "^", "$", "{", "}", "(", ")", "|", "[", "]", "\\"}

\* escapeRegex: string.replace(/[.*+?^${}()|[\]\\]/g, '\\$&')
RECURSIVE escapeRegex(_)
escapeRegex(t) ==
    IF t = <<>> THEN <<>>
    ELSE (IF Head(t) \in RegexSpecial THEN <<"\\", Head(t)>> ELSE <<Head(t)>>)
         \o escapeRegex(Tail(t))

\* the literal an escaped alternative denotes once new RegExp has parsed it
RECURSIVE regexLiteral(_)
regexLiteral(alt) ==
    IF alt = <<>> THEN <<>>
    ELSE IF Head(alt) = "\\" /\ Len(alt) >= 2
         THEN <<alt[2]>> \o regexLiteral(SubSeq(alt, 3, Len(alt)))
         ELSE <<Head(alt)>> \o regexLiteral(Tail(alt))

\* insert s behind every element that is not shorter
RECURSIVE insertByLength(_, _)
insertByLength(sorted, s) ==
    IF sorted = <<>> THEN <<s>>
    ELSE IF Len(Head(sorted)) >= Len(s)
         THEN <<Head(sorted)>> \o insertByLength(Tail(sorted), s)
         ELSE <<s>> \o sorted

\* .sort((a, b) => b.length - a.length), stable
RECURSIVE sortByLength(_)
sortByLength(ss) ==
    IF ss = <<>> THEN <<>>
    ELSE insertByLength(sortByLength(SubSeq(ss, 1, Len(ss) - 1)), ss[Len(ss)])

\* the assertion \b at position p (between text[p-1] and text[p])
wordBoundary(text, p) ==
    LET before == p > 1 /\ IsWordChar(text[p - 1])
        after  == p <= Len(text) /\ IsWordChar(text[p])
    IN  before # after

\* the literal lit matches at p under the flag i
literalAt(text, p, lit) ==
    /\ p + Len(lit) - 1 <= Len(text)
    /\ \A k \in DOMAIN lit : toLowerCase(text[p + k - 1]) = toLowerCase(lit[k])

\* \b(alt1|alt2|...)\b tried at p: the length of the first alternative, in
\* order, that matches with a word boundary behind it; 0 when none does
RECURSIVE alternationAt(_, _, _)
alternationAt(text, p, alts) ==
    IF alts = <<>> THEN 0
    ELSE LET lit == regexLiteral(Head(alts))
         IN  IF literalAt(text, p, lit) /\ wordBoundary(text, p + Len(lit))
             THEN Len(lit)
             ELSE alternationAt(text, p, Tail(alts))

matchAt(text, p, alts) ==
    IF wordBoundary(text, p) THEN alternationAt(text, p, alts) ELSE 0

SPAN_OPEN  == "<span class=\"highlight\">"
SPAN_CLOSE == "</span>"

\* originalH1.replace(regex, match => span), flag g: scan from p to the right
RECURSIVE replaceAll(_, _, _)
replaceAll(text, p, alts) ==
    IF p > Len(text) THEN <<>>
    ELSE LET n == matchAt(text, p, alts)
         IN  IF n > 0
             THEN <<SPAN_OPEN>> \o SubSeq(text, p, p + n - 1) \o <<SPAN_CLOSE>>
                  \o replaceAll(text, p + n, alts)
             ELSE <<text[p]>> \o replaceAll(text, p + 1, alts)

\* phrasesToHighlight (lines 206-209)
phrasesToHighlight(matches) ==
    sortByLength([i \in DOMAIN matches |-> escapeRegex(matches[i].phrase)])

\* allMatchedKeywords, a Set in insertion order (lines 476-479)
RECURSIVE addKeywords(_, _)
addKeywords(kws, acc) ==
    IF kws = <<>> THEN acc
    ELSE addKeywords(Tail(kws),
                     IF Head(kws) \in Range(acc) THEN acc ELSE Append(acc, Head(kws)))

RECURSIVE allMatchedKeywords(_, _)
allMatchedKeywords(matches, acc) ==
    IF matches = <<>> THEN acc
    ELSE allMatchedKeywords(Tail(matches), addKeywords(Head(matches).requiredKeywords, acc))

\* keywordsArray, sorted and escaped (lines 481-487)
keywordsArray(matches) ==
    LET sorted == sortByLength(allMatchedKeywords(matches, <<>>))
    IN  [i \in DOMAIN sorted |-> escapeRegex(sorted[i])]

\* htmlTitle (lines 211-220 / 485-494)
htmlTitle(ver, originalH1, matches) ==
    LET alts == IF ver = "exact" THEN phrasesToHighlight(matches)
                ELSE keywordsArray(matches)
    IN  IF Len(alts) > 0 THEN replaceAll(originalH1, 1, alts) ELSE originalH1

\* the anchors appended to els.related (lines 229-236 / 503-510)
relatedLinks(matches) ==
    [i \in DOMAIN matches |->
        [href |-> matches[i].url, textContent |-> matches[i].anchor,
         target |-> "_blank", rel |-> "noopener noreferrer"]]

\* debugData (lines 242-248 / 516-522)
debugData(matches) ==
    [i \in DOMAIN matches |->
        [phrase |-> matches[i].phrase, url |-> matches[i].url,
         anchor |-> matches[i].anchor, matchType |-> matches[i].matchType,
         score |-> matches[i].score]]

-----------------------------------------------------------------------------
(* The handlers *)

NoFile == [filename |-> "", content |-> <<>>, type |-> ""]

NoStatus == Status("", 0)

\* runAlert without the check of the title
runAlertCatalogOnly(csv, rawH1) ==
    IF Len(csv) = 0 THEN "Please upload a CSV file first." ELSE ""

\* the alert that ends runMatching early, "" when the run goes on
\* (lines 124-133 / 415-424)
runAlert(csv, rawH1) ==
    IF Len(csv) = 0 THEN "Please upload a CSV file first."
    ELSE IF trim(rawH1) = <<>> THEN "Please enter a PDP title."
    ELSE ""

\* the click handler of runBtn
runMatching ==
    LET msg == runAlert(csvData, pdpInput)
        uniqueMatches == matchSet(version, csvData, pdpInput)
    IN  /\ alertMsg' = msg
        /\ download' = NoFile
        /\ IF msg # ""
           THEN UNCHANGED <<lastMatches, pdpTitle, related, relatedShown,
                            debugOut, exportEnabled>>
           ELSE /\ lastMatches' = uniqueMatches
                /\ pdpTitle' = htmlTitle(version, pdpInput, uniqueMatches)
                /\ related' = relatedLinks(uniqueMatches)
                /\ relatedShown' = (Len(uniqueMatches) > 0)
                /\ debugOut' = debugData(uniqueMatches)
                /\ exportEnabled' = TRUE
        /\ UNCHANGED <<version, csvData, pdpInput, csvStatus, parsing>>

\* exportHTML without the guard on lastMatches
exportHTMLUnguarded ==
    /\ download' = [filename |-> "related-collections.html",
                    content |-> related, type |-> "text/html"]
    /\ alertMsg' = ""
    /\ UNCHANGED <<version, csvData, lastMatches, pdpInput, pdpTitle, related,
                   relatedShown, debugOut, exportEnabled, csvStatus, parsing>>

\* the click handler of exportHtml (lines 264-268 / 538-542)
exportHTML ==
    /\ download' = IF Len(lastMatches) = 0 THEN NoFile
                   ELSE [filename |-> "related-collections.html",
                         content |-> related, type |-> "text/html"]
    /\ alertMsg' = ""
    /\ UNCHANGED <<version, csvData, lastMatches, pdpInput, pdpTitle, related,
                   relatedShown, debugOut, exportEnabled, csvStatus, parsing>>

\* the click handler of exportJson (lines 270-274 / 544-548)
exportJSON ==
    /\ download' = IF Len(lastMatches) = 0 THEN NoFile
                   ELSE [filename |-> "matches.json",
                         content |-> debugOut, type |-> "application/json"]
    /\ alertMsg' = ""
    /\ UNCHANGED <<version, csvData, lastMatches, pdpInput, pdpTitle, related,
                   relatedShown, debugOut, exportEnabled, csvStatus, parsing>>

\* the change handler of csvFile with a file chosen: Papa.parse starts and
\* its callback runs later (lines 33-47 / 322-348)
handleFileUpload(res) ==
    /\ parsing' = Append(parsing, res)
    /\ csvStatus' = IF version = "scattered" THEN Status("Parsing CSV...", 0)
                    ELSE csvStatus
    /\ alertMsg' = ""
    /\ download' = NoFile
    /\ UNCHANGED <<version, csvData, lastMatches, pdpInput, pdpTitle, related,
                   relatedShown, debugOut, exportEnabled>>

\* the sequence s without its i-th element
RemoveAt(s, i) == SubSeq(s, 1, i - 1) \o SubSeq(s, i + 1, Len(s))

\* what Papa's callbacks leave for the result res: complete for a parsed
\* file, error (scattered revision only) for an unreadable one
papaCallback(ver, res, csv, status) ==
    IF res.fatal
    THEN [csvData |-> csv,
          csvStatus |-> IF ver = "scattered" THEN Status("Critical Error", 0) ELSE status]
    ELSE parseComplete(ver, res, csv, status)

\* Papa calls back for the i-th parse in flight
papaDone(i) ==
    LET after == papaCallback(version, parsing[i], csvData, csvStatus)
    IN  /\ parsing' = RemoveAt(parsing, i)
        /\ csvData' = after.csvData
        /\ csvStatus' = after.csvStatus
        /\ alertMsg' = ""
        /\ download' = NoFile
        /\ UNCHANGED <<version, lastMatches, pdpInput, pdpTitle, related,
                       relatedShown, debugOut, exportEnabled>>

\* the user edits the title field
typeTitle(t) ==
    /\ pdpInput' = t
    /\ alertMsg' = ""
    /\ download' = NoFile
    /\ UNCHANGED <<version, csvData, lastMatches, pdpTitle, related, relatedShown,
                   debugOut, exportEnabled, csvStatus, parsing>>

\* the change handler of csvFile with no file chosen: if (!file) return
handleNoFile ==
    /\ alertMsg' = ""
    /\ download' = NoFile
    /\ UNCHANGED <<version, csvData, lastMatches, pdpInput, pdpTitle, related,
                   relatedShown, debugOut, exportEnabled, csvStatus, parsing>>

-----------------------------------------------------------------------------
(* Inputs: what Papa.parse hands to its callbacks *)

H_PHRASE == <<"P","D","P"," ","P","h","r","a","s","e">>
H_URL    == <<"P","L","P"," ","U","R","L">>
H_ANCHOR == <<"A","n","c","h","o","r"," ","T","e","x","t">>

GoodFields  == <<H_PHRASE, H_URL, H_ANCHOR>>
LowerFields == <<KEY_ANCHOR, KEY_URL, KEY_PHRASE>>
ShortFields == <<H_PHRASE, H_URL>>

\* the row object Papa builds (header: true) from the cells <<phrase, url, anchor>>
makeRow(fields, cells) ==
    [f \in Range(fields) |->
        IF lowerText(f) = KEY_PHRASE THEN cells[1]
        ELSE IF lowerText(f) = KEY_URL THEN cells[2]
        ELSE IF lowerText(f) = KEY_ANCHOR THEN cells[3]
        ELSE <<>>]

papaResult(fields, rows, errors) ==
    [data |-> [i \in DOMAIN rows |-> makeRow(fields, rows[i])],
     fields |-> fields, hasFields |-> TRUE, errors |-> errors, fatal |-> FALSE]

\* no header row could be read: meta.fields is undefined
NoFieldsResult ==
    [data |-> <<>>, fields |-> <<>>, hasFields |-> FALSE, errors |-> TRUE, fatal |-> FALSE]

\* the file could not be read at all: Papa calls error, not complete
FatalResult ==
    [data |-> <<>>, fields |-> <<>>, hasFields |-> FALSE, errors |-> FALSE, fatal |-> TRUE]

SeqsUpTo(S, n) == UNION { [1..k -> S] : k \in 0..n }

-----------------------------------------------------------------------------
(* The page: uploads, title edits, runs and exports in any order *)

MaxParsing == 1

RowSoft  == << <<"A","-","b">>, <<" ","u"," ">>, <<"x">> >>
RowB     == << <<"b">>, <<"v">>, <<"y">> >>
RowBlank == << <<"-","-">>, <<"v">>, <<"y">> >>
RowNoUrl == << <<"b">>, <<" ">>, <<"y">> >>

Files ==
    { papaResult(GoodFields, <<RowSoft, RowBlank, RowB>>, FALSE),
      papaResult(LowerFields, <<RowB>>, FALSE),
      papaResult(GoodFields, <<RowBlank, RowNoUrl>>, FALSE),
      papaResult(GoodFields, <<RowSoft>>, TRUE),
      papaResult(ShortFields, <<RowSoft, RowB>>, FALSE),
      papaResult(<<>>, <<>>, TRUE),
      NoFieldsResult,
      FatalResult }

PageTitles ==
    { <<" ">>, <<"-">>, <<"A"," ","b">>, <<"c"," ","b">> }

Init ==
    /\ version \in {"exact", "scattered"}
    /\ csvData = <<>>
    /\ lastMatches = <<>>
    /\ pdpInput = <<>>
    /\ pdpTitle = <<>>
    /\ related = <<>>
    /\ relatedShown = FALSE
    /\ debugOut = <<>>
    /\ exportEnabled = FALSE
    /\ csvStatus = NoStatus
    /\ alertMsg = ""
    /\ download = NoFile
    /\ parsing = <<>>

Next ==
    \/ \E res \in Files : Len(parsing) < MaxParsing /\ handleFileUpload(res)
    \/ handleNoFile
    \/ \E i \in DOMAIN parsing : papaDone(i)
    \/ \E t \in PageTitles : typeTitle(t)
    \/ runMatching
    \/ exportHTML
    \/ exportJSON

Spec == Init /\ [][Next]_vars

-----------------------------------------------------------------------------
(* One run of the matcher over a bounded family of catalogs and titles *)

MaxRows == 2
MaxTitleTokens == 5

TitleWords == { <<"a">>, <<"b">> }

\* titles written in lower case with single spaces
PlainTitles == { join(ws) : ws \in SeqsUpTo(TitleWords, MaxTitleTokens) }

\* titles with capitals, punctuation, runs of white space and longer words
StyledTitles ==
    { <<"A","-","B"," ","a">>,
      <<"a","b"," ","a">>,
      <<" ","b","\t"," ","a","!">>,
      <<"b","_","a"," ","B">> }

MatchTitles == PlainTitles \cup StyledTitles

\* catalog rows as cells <<PDP Phrase, PLP URL, Anchor Text>>
MatchRows ==
    { << <<"a">>, <<" ","v">>, <<"x">> >>,
      << <<"a"," ","b">>, <<"u">>, <<"v","|","x">> >>,
      << <<"B","-","a"," "," ","b">>, <<"v">>, <<"x"," ">> >>,
      << <<"b">>, <<"u","|","v">>, <<"x">> >>,
      << <<"b"," ","a"," ","b"," ","a">>, <<"w">>, <<"y">> >>,
      << <<"a"," ","b"," ","a"," ","b"," ","a">>, <<"w">>, <<"x">> >> }

MatchFiles ==
    { papaResult(GoodFields, rows, FALSE) : rows \in SeqsUpTo(MatchRows, MaxRows) }

InitMatch ==
    /\ version \in {"exact", "scattered"}
    /\ \E res \in MatchFiles :
          LET loaded == papaCallback(version, res, <<>>, NoStatus)
          IN  csvData = loaded.csvData /\ csvStatus = loaded.csvStatus
    /\ pdpInput \in MatchTitles
    /\ lastMatches = <<>>
    /\ pdpTitle = <<>>
    /\ related = <<>>
    /\ relatedShown = FALSE
    /\ debugOut = <<>>
    /\ exportEnabled = FALSE
    /\ alertMsg = ""
    /\ download = NoFile
    /\ parsing = <<>>

NextMatch == runMatching

SpecMatch == InitMatch /\ [][NextMatch]_vars

-----------------------------------------------------------------------------
(* Vocabulary of the properties *)

\* the tokens of the title as typed
titleTokens == tokenize(normalize(pdpInput))

\* the candidates the Matcher finds for the catalog and the title as they stand
runCandidates == candidates(version, csvData, pdpInput)

\* a run has rendered its results for the catalog and title of SpecMatch
rendered == exportEnabled

\* words is the window of the tokens toks that starts at the i-th
occursAt(toks, words, i) ==
    /\ i + Len(words) - 1 <= Len(toks)
    /\ SubSeq(toks, i, i + Len(words) - 1) = words

occursIn(toks, words) == \E i \in 1..Len(toks) : occursAt(toks, words, i)

\* the first place where words occurs in toks
firstPlace(toks, words) ==
    CHOOSE i \in 1..Len(toks) :
        occursAt(toks, words, i) /\ \A j \in 1..(i - 1) : ~occursAt(toks, words, j)

\* the words of short are a window strictly inside the words of long
inside(short, long) == Len(short) < Len(long) /\ occursIn(long, short)

samePair(a, b) == a.url = b.url /\ a.anchor = b.anchor

\* the entry or candidate with this id is among ms
hasId(ms, id) == \E i \in DOMAIN ms : ms[i].id = id

-----------------------------------------------------------------------------
(* C1 *)

\* C1: after a run the MatchSet holds exactly one element for each distinct
\* (url, anchor) pair among the run's candidates: no two elements share a
\* pair, no pair of a candidate is missing, and the element kept for a pair
\* is its highest-scored candidate, the first discovered one on a tie.
C1_OnePerPair ==
    rendered =>
        LET cands == runCandidates
        IN  /\ \A i, j \in DOMAIN lastMatches :
                  i # j => ~samePair(lastMatches[i], lastMatches[j])
            /\ \A c \in DOMAIN cands :
                  \E i \in DOMAIN lastMatches : samePair(lastMatches[i], cands[c])
            /\ \A i \in DOMAIN lastMatches :
                  \E c \in DOMAIN cands :
                     /\ cands[c].id = lastMatches[i].id
                     /\ \A d \in DOMAIN cands :
                           samePair(cands[d], cands[c]) =>
                              \/ cands[d].score < cands[c].score
                              \/ cands[d].score = cands[c].score /\ c <= d

-----------------------------------------------------------------------------
(* C2 *)

-----------------------------------------------------------------------------
(* C3 *)

\* C3: under exact+fallback an entry is a candidate if and only if its
\* phrase is the text of a window of 1 to 4 consecutive title tokens; an
\* entry is a candidate at most once; an exact candidate's score is the
\* number of its keywords.
C3_ExactIffWindow ==
    version = "exact" =>
        LET cands == runCandidates
            toks  == titleTokens
        IN  /\ \A r \in DOMAIN csvData :
                  hasId(cands, csvData[r].id)
                  <=> (\E n \in 1..4 : \E i \in 1..Len(toks) :
                          /\ i + n - 1 <= Len(toks)
                          /\ join(SubSeq(toks, i, i + n - 1)) = csvData[r].phrase)
            /\ \A c, d \in DOMAIN cands : cands[c].id = cands[d].id => c = d
            /\ \A c \in DOMAIN cands :
                  cands[c].matchType = "exact" => cands[c].score = Len(cands[c].tokens)
            /\ rendered => \A i \in DOMAIN lastMatches :
                  \E c \in DOMAIN cands : cands[c] = lastMatches[i]

\* a run matched a phrase of several words and left out an entry of five
\* words that stand in a row in the title
C3_Witness ==
    /\ rendered /\ version = "exact"
    /\ \E i \in DOMAIN lastMatches : Len(lastMatches[i].tokens) >= 2
    /\ \E r \in DOMAIN csvData :
          /\ Len(csvData[r].tokens) = 5
          /\ occursIn(titleTokens, csvData[r].tokens)
          /\ ~hasId(lastMatches, csvData[r].id)

-----------------------------------------------------------------------------
(* C4 *)

\* C4: under the scattered strategy an entry is a candidate if and only if
\* every keyword of it is a title token, whatever the order; the candidate
\* has matchType scattered and the number of its keywords as score.
C4_ScatteredIffAllKeywords ==
    version = "scattered" =>
        LET cands == runCandidates
            toks  == titleTokens
        IN  /\ \A r \in DOMAIN csvData :
                  hasId(cands, csvData[r].id)
                  <=> (\A k \in DOMAIN csvData[r].requiredKeywords :
                          \E i \in DOMAIN toks : toks[i] = csvData[r].requiredKeywords[k])
            /\ \A c \in DOMAIN cands :
                  /\ cands[c].matchType = "scattered"
                  /\ cands[c].score = Len(cands[c].requiredKeywords)
            /\ rendered => \A i \in DOMAIN lastMatches :
                  \E c \in DOMAIN cands : cands[c] = lastMatches[i]

\* a scattered run matched a phrase whose words are not adjacent in the
\* title and left out an entry with a keyword the title lacks
C4_Witness ==
    /\ rendered /\ version = "scattered"
    /\ \E i \in DOMAIN lastMatches :
          /\ Len(lastMatches[i].requiredKeywords) >= 2
          /\ ~occursIn(titleTokens, lastMatches[i].requiredKeywords)
    /\ \E r \in DOMAIN csvData : ~hasId(lastMatches, csvData[r].id)

-----------------------------------------------------------------------------
(* C5 *)

\* a was discovered before b by the Matcher, for a and b of equal score:
\* exact before fallback, then by the first window of the title that is the
\* phrase, then by catalog order; catalog order alone for scattered
discoveredBefore(toks, a, b) ==
    IF version = "scattered" THEN a.id < b.id
    ELSE IF a.matchType # b.matchType THEN a.matchType = "exact"
    ELSE LET pa == firstPlace(toks, a.tokens)
             pb == firstPlace(toks, b.tokens)
         IN  pa < pb \/ (pa = pb /\ a.id < b.id)

\* C5: the MatchSet of a run is ordered by descending score, and elements of
\* equal score stand in the order in which the Matcher discovered them.
C5_RankedStable ==
    rendered =>
        LET toks == titleTokens
        IN  \A i, j \in DOMAIN lastMatches :
                i < j =>
                   \/ lastMatches[i].score > lastMatches[j].score
                   \/ /\ lastMatches[i].score = lastMatches[j].score
                      /\ discoveredBefore(toks, lastMatches[i], lastMatches[j])

\* two elements of equal score stand in discovery order, which here is
\* against the catalog order
C5_Witness ==
    /\ rendered /\ version = "exact"
    /\ \E i, j \in DOMAIN lastMatches :
          /\ i < j
          /\ lastMatches[i].score = lastMatches[j].score
          /\ lastMatches[i].id > lastMatches[j].id

-----------------------------------------------------------------------------
(* C9 *)

Markup == {SPAN_OPEN, SPAN_CLOSE}

\* the number of title characters before the k-th element of html
charsBefore(html, k) == Cardinality({ m \in 1..(k - 1) : html[m] \notin Markup })

\* the place of the first closing tag behind the k-th element of html
closeOf(html, k) ==
    CHOOSE m \in (k + 1)..Len(html) :
        html[m] = SPAN_CLOSE /\ \A n \in (k + 1)..(m - 1) : html[n] # SPAN_CLOSE

\* the highlighted spans of html, as <<first, last>> places in the title
highlighted(html) ==
    { <<charsBefore(html, k) + 1, charsBefore(html, closeOf(html, k))>> :
         k \in { k \in DOMAIN html : html[k] = SPAN_OPEN } }

\* no highlight opens inside another
flatMarkup(html) ==
    \A k \in DOMAIN html :
        html[k] = SPAN_OPEN =>
           /\ \E m \in (k + 1)..Len(html) : html[m] = SPAN_CLOSE
           /\ \A n \in (k + 1)..(closeOf(html, k) - 1) : html[n] \notin Markup

\* the phrase stands in the title at place p as whole words, whatever the case
phraseAt(text, phrase, p) ==
    /\ wordBoundary(text, p)
    /\ literalAt(text, p, phrase)
    /\ wordBoundary(text, p + Len(phrase))

\* C9: in the highlighted title of an exact+fallback run, highlights never
\* overlap or nest, and whenever an occurrence of a matched phrase lies in an
\* occurrence of a longer matched phrase, the longer occurrence is highlighted.
C9_LongestHighlighted ==
    (rendered /\ version = "exact") =>
        LET spans == highlighted(pdpTitle)
        IN  /\ flatMarkup(pdpTitle)
            /\ \A s, t \in spans : s # t => (s[2] < t[1] \/ t[2] < s[1])
            /\ \A i, j \in DOMAIN lastMatches :
                  LET long  == lastMatches[i].phrase
                      short == lastMatches[j].phrase
                  IN  Len(short) < Len(long) =>
                         \A p, q \in 1..Len(pdpInput) :
                             (/\ phraseAt(pdpInput, long, p)
                              /\ phraseAt(pdpInput, short, q)
                              /\ p <= q
                              /\ q + Len(short) <= p + Len(long))
                             => <<p, p + Len(long) - 1>> \in spans

-----------------------------------------------------------------------------
(* C10 *)

\* C10: under exact+fallback Pass 2 never emits: an entry of one keyword that
\* is a title token is an exact candidate, and neither a candidate nor an
\* element of the MatchSet has matchType fallback.
C10_NoFallback ==
    version = "exact" =>
        LET cands == runCandidates
            toks  == titleTokens
        IN  /\ \A c \in DOMAIN cands : cands[c].matchType = "exact"
            /\ \A i \in DOMAIN lastMatches : lastMatches[i].matchType = "exact"
            /\ \A r \in DOMAIN csvData :
                  (Len(csvData[r].tokens) = 1
                     /\ \E i \in DOMAIN toks : toks[i] = csvData[r].tokens[1])
                  => \E c \in DOMAIN cands :
                        cands[c].id = csvData[r].id /\ cands[c].matchType = "exact"

\* a run matched an entry of one keyword in a title of several tokens, and
\* left out another entry of one keyword
C10_Witness ==
    /\ rendered /\ version = "exact"
    /\ Len(titleTokens) >= 2
    /\ \E i \in DOMAIN lastMatches : Len(lastMatches[i].tokens) = 1
    /\ \E r \in DOMAIN csvData :
          Len(csvData[r].tokens) = 1 /\ ~hasId(lastMatches, csvData[r].id)

-----------------------------------------------------------------------------
(* C6 *)

HeaderKeys == {KEY_PHRASE, KEY_URL, KEY_ANCHOR}

\* one of the three headers is not among the fields, whatever the case
missingHeader(res) ==
    \E key \in HeaderKeys : \A i \in DOMAIN res.fields : lowerText(res.fields[i]) # key

\* the load of res ends in a load error: the file was unreadable, its
\* headers could not be read, or a required header is missing
loadError(res) == res.fatal \/ ~res.hasFields \/ missingHeader(res)

\* the cell of row under the header that reads key
valueOf(row, key) == row[CHOOSE f \in DOMAIN row : lowerText(f) = key]

\* the row has a phrase with at least one keyword, a url and an anchor
usable(row) ==
    /\ normalize(valueOf(row, KEY_PHRASE)) # <<>>
    /\ trim(valueOf(row, KEY_URL)) # <<>>
    /\ trim(valueOf(row, KEY_ANCHOR)) # <<>>

\* csv is the complete filtered row set of res: every usable row, in row
\* order, under its row index
completeCatalog(csv, res) ==
    LET keep == { i \in DOMAIN res.data : usable(res.data[i]) }
    IN  /\ Len(csv) = Cardinality(keep)
        /\ \A k \in DOMAIN csv :
              /\ csv[k].id + 1 \in keep
              /\ csv[k].originalRow = res.data[csv[k].id + 1]
              /\ csv[k].phrase = normalize(valueOf(res.data[csv[k].id + 1], KEY_PHRASE))
              /\ csv[k].url = trim(valueOf(res.data[csv[k].id + 1], KEY_URL))
              /\ csv[k].anchor = trim(valueOf(res.data[csv[k].id + 1], KEY_ANCHOR))
        /\ \A k, m \in DOMAIN csv : k < m => csv[k].id < csv[m].id

\* C6: a load that ends in a load error leaves the catalog empty or as it
\* was, and the catalog is always empty or the complete filtered row set of
\* one successful load: a load without a load error installs the complete
\* filtered row set of its file, and nothing but a load changes the catalog.
C6_CatalogWholeOrUntouched ==
    /\ [](csvData = <<>>
            \/ \E res \in Files : ~loadError(res) /\ completeCatalog(csvData, res))
    /\ [][\A i \in DOMAIN parsing :
             papaDone(i) =>
                IF loadError(parsing[i])
                THEN csvData' = csvData \/ csvData' = <<>>
                ELSE completeCatalog(csvData', parsing[i])]_vars
    /\ [][csvData' # csvData => \E i \in DOMAIN parsing : papaDone(i)]_vars

\* a load ended in "Missing columns" and the catalog of the load before it,
\* which had dropped an unusable row, is still in place
C6_Witness ==
    /\ csvStatus.msg = "Error: Missing columns"
    /\ parsing = <<>>
    /\ Len(csvData) = 2
    /\ csvData[2].id = 2

-----------------------------------------------------------------------------
(* C7 *)

\* the text holds nothing but white space
blank(t) == \A i \in DOMAIN t : IsSpace(t[i])

\* C7: a run started with an empty catalog or an empty title is rejected with
\* an alert and leaves lastMatches, the rendered title, the rendered links
\* and the debug record as they were.
C7_EmptyInputRejected ==
    [][(runMatching /\ (csvData = <<>> \/ blank(pdpInput))) =>
          /\ alertMsg' # ""
          /\ UNCHANGED <<lastMatches, pdpTitle, related, debugOut>>]_vars

\* a run was rejected for its empty title and the results of the run before
\* it are still shown
C7_Witness ==
    /\ alertMsg = "Please enter a PDP title."
    /\ blank(pdpInput)
    /\ Len(lastMatches) > 0
    /\ related # <<>>
    /\ debugOut # <<>>

-----------------------------------------------------------------------------
(* C8 *)

\* C8 as claimed: once a run has produced matches, export stays available.
C8_OnceAvailable ==
    [][Len(lastMatches) > 0 => Len(lastMatches') > 0]_vars

\* C8 as amended: an export request produces an artifact built from the
\* MatchSet of the most recent completed run, and is a no-op exactly when
\* that MatchSet is empty: no run has completed, or the last one matched
\* nothing.
C8_ExportFromLastRun ==
    [][/\ exportHTML =>
             download' = IF lastMatches = <<>> THEN NoFile
                         ELSE [filename |-> "related-collections.html",
                               content |-> relatedLinks(lastMatches),
                               type |-> "text/html"]
       /\ exportJSON =>
             download' = IF lastMatches = <<>> THEN NoFile
                         ELSE [filename |-> "matches.json",
                               content |-> debugData(lastMatches),
                               type |-> "application/json"]]_vars

\* the links of a run with matches have been exported
C8_Witness ==
    /\ download.filename = "related-collections.html"
    /\ Len(download.content) > 0
    /\ download.content = relatedLinks(lastMatches)

====
